---- MODULE Spec2Model ----
(***************************************************************************)
(* ACDICE configuration manager (src/config.py).                           *)
(*                                                                         *)
(* ACDCIConfig is a pydantic (v1) BaseSettings class: constructing it      *)
(* merges the process environment and the .env file over the declared      *)
(* defaults, validates every field in declaration order and runs the       *)
(* ml_model_path validator, which creates the parent directory of the      *)
(* model path.  validate_configuration() is the start-up check.            *)
(*                                                                         *)
(* Text values are sequences of one-character strings, so that parsing,    *)
(* the log_level pattern and path splitting are computed, not assumed.     *)
(* A float is a pair <<numerator, denominator>> with a positive            *)
(* denominator (0.75 is <<75, 100>>).                                      *)
(***************************************************************************)
EXTENDS Integers, Sequences, FiniteSets, TLC

VARIABLES
    environ,      \* process environment: field -> <<>> (unset) or <<raw text>>
    dotenv,       \* the .env file:       field -> <<>> (unset) or <<raw text>>
    credentials,  \* GOOGLE_APPLICATION_CREDENTIALS: <<>> (unset) or <<text>>
    fs,           \* filesystem: node -> "absent" | "dir" | "file"
    config,       \* the module global `config`: <<>> or <<snapshot>>
    loadError,    \* outcome of the latest ACDCIConfig(): "none", "ValidationError", "OSError"
    errors,       \* the (field, error type) pairs of the latest ValidationError
    returned,     \* what the latest validate_configuration() call returned
    escaped,      \* the exception that left the latest validate_configuration() call, or "none"
    emitted,      \* the log levels the latest validate_configuration() call emitted
    lastOp,       \* the latest operation: "init", "load", "validate", "external"
    fsBefore,     \* the filesystem just before the latest operation
    configAtLoad  \* the snapshot as it was when the load returned it

vars == <<environ, dotenv, credentials, fs, config, loadError, errors,
          returned, escaped, emitted, lastOp, fsBefore, configAtLoad>>

----------------------------------------------------------------------------
(* Bound of the enumerated inputs.                                         *)

\* integer fields are supplied with the values -MaxInt .. MaxInt
MaxInt == 1

----------------------------------------------------------------------------
(* Text.                                                                   *)

Digits == <<"0", "1", "2", "3", "4", "5", "6", "7", "8", "9">>

DigitValue(c) == CHOOSE d \in 0..9 : Digits[d + 1] = c

IsDigit(c) == \E d \in 0..9 : Digits[d + 1] = c

AllDigits(s) == Len(s) > 0 /\ \A i \in 1..Len(s) : IsDigit(s[i])

RECURSIVE DigitsValue(_)
DigitsValue(s) ==
    IF Len(s) = 0 THEN 0
    ELSE 10 * DigitsValue(SubSeq(s, 1, Len(s) - 1)) + DigitValue(s[Len(s)])

RECURSIVE Pow10(_)
Pow10(n) == IF n = 0 THEN 1 ELSE 10 * Pow10(n - 1)

RECURSIVE NatToText(_)
NatToText(n) ==
    IF n < 10 THEN <<Digits[n + 1]>>
    ELSE Append(NatToText(n \div 10), Digits[(n % 10) + 1])

IntToText(i) == IF i < 0 THEN <<"-">> \o NatToText(-i) ELSE NatToText(i)

IndexOf(s, c) ==
    IF \E i \in 1..Len(s) : s[i] = c
    THEN CHOOSE i \in 1..Len(s) : s[i] = c /\ \A j \in 1..(i - 1) : s[j] # c
    ELSE 0

Unsigned(s) == IF Len(s) > 0 /\ s[1] = "-" THEN SubSeq(s, 2, Len(s)) ELSE s

Sign(s) == IF Len(s) > 0 /\ s[1] = "-" THEN -1 ELSE 1


\* int(v) on a text value: an optional minus sign and decimal digits
ParseInt(s) ==
    IF AllDigits(Unsigned(s))
    THEN [ok |-> TRUE, v |-> Sign(s) * DigitsValue(Unsigned(s))]
    ELSE [ok |-> FALSE, v |-> 0]

\* the float whose sign, digits before the point and digits after it are
\* given (dot = 0: the text has no point)
FloatFrom(sign, whole, frac, dot) ==
    IF AllDigits(whole) /\ (dot = 0 \/ AllDigits(frac))
    THEN [ok |-> TRUE,
          v |-> <<sign * (DigitsValue(whole) * Pow10(Len(frac)) + DigitsValue(frac)),
                  Pow10(Len(frac))>>]
    ELSE [ok |-> FALSE, v |-> <<0, 1>>]

\* the unsigned text u split at its decimal point, at index dot
FloatSplit(sign, u, dot) ==
    FloatFrom(sign,
              IF dot = 0 THEN u ELSE SubSeq(u, 1, dot - 1),
              IF dot = 0 THEN <<>> ELSE SubSeq(u, dot + 1, Len(u)),
              dot)

\* float(v) on a text value: an optional minus sign, digits, and optionally a
\* point and more digits; the result is <<numerator, denominator>>
ParseFloat(s) == FloatSplit(Sign(s), Unsigned(s), IndexOf(Unsigned(s), "."))

----------------------------------------------------------------------------
(* The declared fields of ACDCIConfig, in declaration order.               *)

FieldOrder ==
    << "firebase_project_id", "firestore_collection_prefix", "ml_model_path",
       "prediction_confidence_threshold", "max_concurrent_integrations",
       "integration_timeout_seconds", "exploration_rate",
       "knowledge_base_refresh_hours", "log_level", "log_retention_days",
       "metrics_collection_interval" >>

Fields == {FieldOrder[i] : i \in 1..Len(FieldOrder)}

StrFields == {"firebase_project_id", "firestore_collection_prefix", "ml_model_path", "log_level"}

FloatFields == {"prediction_confidence_threshold", "exploration_rate"}

IntFields ==
    {"max_concurrent_integrations", "integration_timeout_seconds",
     "knowledge_base_refresh_hours", "log_retention_days",
     "metrics_collection_interval"}

DefaultModelPath ==
    <<"m", "o", "d", "e", "l", "s", "/", "i", "n", "t", "e", "g", "r", "a", "t",
      "i", "o", "n", "_", "p", "r", "e", "d", "i", "c", "t", "o", "r", ".", "j",
      "o", "b", "l", "i", "b">>

\* Field(default=...)
FieldDefault(f) ==
    CASE f = "firebase_project_id" ->
            <<"a", "c", "d", "i", "c", "e", "-", "p", "r", "o", "d", "u", "c", "t", "i", "o", "n">>
      [] f = "firestore_collection_prefix" -> <<"a", "c", "d", "i", "c", "e", "_">>
      [] f = "ml_model_path" -> DefaultModelPath
      [] f = "prediction_confidence_threshold" -> <<75, 100>>
      [] f = "max_concurrent_integrations" -> 10
      [] f = "integration_timeout_seconds" -> 30
      [] f = "exploration_rate" -> <<2, 10>>
      [] f = "knowledge_base_refresh_hours" -> 24
      [] f = "log_level" -> <<"I", "N", "F", "O">>
      [] f = "log_retention_days" -> 30
      [] f = "metrics_collection_interval" -> 300

\* Field(ge=0.0) on a float <<numerator, denominator>>
FloatGe(v) == v[1] >= 0 * v[2]

\* Field(le=1.0)
FloatLe(v) == v[1] <= 1 * v[2]

\* Field(gt=0)
IntGt(v) == v > 0

\* the alternatives of the log_level pattern ^(DEBUG|INFO|WARNING|ERROR|CRITICAL)$
LevelAlternatives ==
    { <<"D", "E", "B", "U", "G">>, <<"I", "N", "F", "O">>,
      <<"W", "A", "R", "N", "I", "N", "G">>, <<"E", "R", "R", "O", "R">>,
      <<"C", "R", "I", "T", "I", "C", "A", "L">> }

IsPrefix(p, s) == Len(p) <= Len(s) /\ SubSeq(s, 1, Len(p)) = p

\* `$` at position i of s (Python re, no MULTILINE): the end of the text, or
\* just before a newline that is the last character
DollarAt(s, i) == i = Len(s) + 1 \/ (i = Len(s) /\ s[i] = "\n")

LowerCase ==
    <<"a", "b", "c", "d", "e", "f", "g", "h", "i", "j", "k", "l", "m", "n", "o",
      "p", "q", "r", "s", "t", "u", "v", "w", "x", "y", "z">>

UpperCase ==
    <<"A", "B", "C", "D", "E", "F", "G", "H", "I", "J", "K", "L", "M", "N", "O",
      "P", "Q", "R", "S", "T", "U", "V", "W", "X", "Y", "Z">>

\* str.upper() on the letters a-z
ToUpper(s) ==
    [i \in 1..Len(s) |->
        IF \E k \in 1..26 : LowerCase[k] = s[i]
        THEN UpperCase[CHOOSE k \in 1..26 : LowerCase[k] = s[i]]
        ELSE s[i]]

\* the pattern matched with re.IGNORECASE
RegexMatch_IgnoreCase(s) ==
    \E alt \in LevelAlternatives :
        IsPrefix(alt, ToUpper(s)) /\ DollarAt(s, Len(alt) + 1)

\* re.match(pattern, s): `^` anchors at the start, one alternative, then `$`
RegexMatch(s) ==
    \E alt \in LevelAlternatives : IsPrefix(alt, s) /\ DollarAt(s, Len(alt) + 1)

\* the constraint of field f on a value of the field's type: the pydantic
\* error type, or "none"
ConstraintError(f, v) ==
    CASE f \in FloatFields ->
            IF ~FloatGe(v) THEN "value_error.number.not_ge"
            ELSE IF ~FloatLe(v) THEN "value_error.number.not_le"
            ELSE "none"
      [] f \in IntFields -> IF IntGt(v) THEN "none" ELSE "value_error.number.not_gt"
      [] f = "log_level" -> IF RegexMatch(v) THEN "none" ELSE "value_error.str.regex"
      [] OTHER -> "none"

\* the outcome of a type validator: the error type kind when the text does
\* not parse
Coerced(r, kind) == [err |-> IF r.ok THEN "none" ELSE kind, v |-> r.v]

\* the type validator of field f on a raw text value from the environment or
\* the .env file
Coerce(f, raw) ==
    CASE f \in IntFields -> Coerced(ParseInt(raw), "type_error.integer")
      [] f \in FloatFields -> Coerced(ParseFloat(raw), "type_error.float")
      [] OTHER -> [err |-> "none", v |-> raw]

\* precedence of the settings sources: environment, then .env file, then the
\* declared default (<<>> when neither source sets the field)
Supplied(env, file, f) ==
    IF Len(env[f]) > 0 THEN env[f] ELSE file[f]

\* the value of field f before its constraint: the declared default when no
\* source sets it, the coerced text otherwise
FieldInput(f, src) ==
    IF Len(src) = 0 THEN [err |-> "none", v |-> FieldDefault(f)]
    ELSE Coerce(f, src[1])

\* the declared constraint applied to a coerced value c
Constrained(f, c) ==
    IF c.err # "none" THEN c
    ELSE [err |-> ConstraintError(f, c.v), v |-> c.v]

\* validation of one field (type validator, then the declared constraint);
\* Config.validate_all of BaseSettings makes the default go through the same
\* constraint and validators
ValidateField(env, file, f) ==
    Constrained(f, FieldInput(f, Supplied(env, file, f)))

----------------------------------------------------------------------------
(* Paths and the filesystem.  A path is the sequence of its components;    *)
(* <<>> is the current directory.                                          *)

RECURSIVE SplitPath(_)
\* the components of a path text, as pathlib keeps them: empty components and
\* "." components are dropped
SplitPath(s) ==
    LET cut == IndexOf(s, "/")
        head == IF cut = 0 THEN s ELSE SubSeq(s, 1, cut - 1)
        rest == IF cut = 0 THEN <<>> ELSE SplitPath(SubSeq(s, cut + 1, Len(s)))
    IN  IF Len(s) = 0 THEN <<>>
        ELSE IF Len(head) = 0 \/ head = <<".">> THEN rest
        ELSE <<head>> \o rest

\* PurePath.parent of a relative path
Parent(p) == IF Len(p) = 0 THEN <<>> ELSE SubSeq(p, 1, Len(p) - 1)

\* Path(v).parent
ParentOfText(v) == Parent(SplitPath(v))

ModelsDir == << <<"m", "o", "d", "e", "l", "s">> >>

NestedDir == << <<"m", "o", "d", "e", "l", "s">>, <<"v">> >>

\* the filesystem nodes the enumerated paths can touch
Nodes == {ModelsDir, NestedDir}

NodeKind(f, p) ==
    IF Len(p) = 0 THEN "dir" ELSE IF p \in Nodes THEN f[p] ELSE "absent"

\* Path.exists()
Exists(f, p) == NodeKind(f, p) # "absent"

\* Path.is_dir()
IsDir(f, p) == NodeKind(f, p) = "dir"

\* a filesystem is a tree: what exists lies in a directory
WellFormed(f) == \A p \in Nodes : f[p] # "absent" => IsDir(f, Parent(p))

FileSystems == {f \in [Nodes -> {"absent", "dir", "file"}] : WellFormed(f)}

\* os.mkdir(p): the error it raises, or "none"
OsMkdirError(f, p) ==
    IF Exists(f, p) THEN "FileExistsError"
    ELSE IF NodeKind(f, Parent(p)) = "absent" THEN "FileNotFoundError"
    ELSE IF NodeKind(f, Parent(p)) = "file" THEN "NotADirectoryError"
    ELSE "none"

\* Path.mkdir(parents=False, exist_ok=True)
MkdirNoParents(f, p) ==
    LET e == OsMkdirError(f, p)
    IN  IF e = "none" THEN [fs |-> [f EXCEPT ![p] = "dir"], err |-> "none"]
        ELSE IF e = "FileNotFoundError" THEN [fs |-> f, err |-> e]
        ELSE IF IsDir(f, p) THEN [fs |-> f, err |-> "none"]
        ELSE [fs |-> f, err |-> e]

RECURSIVE PathMkdir_ExistNotOk(_, _)
\* Path.mkdir(parents=True) without exist_ok: an existing path is an error
PathMkdir_ExistNotOk(f, p) ==
    LET e == OsMkdirError(f, p)
    IN  IF e = "none" THEN [fs |-> [f EXCEPT ![p] = "dir"], err |-> "none"]
        ELSE IF e = "FileNotFoundError"
        THEN LET up == PathMkdir_ExistNotOk(f, Parent(p))
             IN  IF up.err # "none" THEN up
                 ELSE [fs |-> [up.fs EXCEPT ![p] = "dir"], err |-> "none"]
        ELSE [fs |-> f, err |-> e]

RECURSIVE PathMkdir(_, _)
\* Path.mkdir(parents=True, exist_ok=True)
PathMkdir(f, p) ==
    LET e == OsMkdirError(f, p)
    IN  IF e = "none" THEN [fs |-> [f EXCEPT ![p] = "dir"], err |-> "none"]
        ELSE IF e = "FileNotFoundError"
        THEN LET up == PathMkdir(f, Parent(p))
             IN  IF up.err # "none" THEN up ELSE MkdirNoParents(up.fs, p)
        ELSE IF IsDir(f, p) THEN [fs |-> f, err |-> "none"]
        ELSE [fs |-> f, err |-> e]

----------------------------------------------------------------------------
(* ACDCIConfig(): construction of the settings object.                     *)

\* a validator that checks nothing and creates nothing
validate_model_path_NoMkdir(f, v) == [fs |-> f, err |-> "none"]

\* @validator("ml_model_path"): creates the parent directory of v
validate_model_path(f, v) == PathMkdir(f, ParentOfText(v))

\* the outcome m of the ml_model_path validator on value v recorded in acc
ModelPathStep(acc, f, v, m) ==
    IF m.err # "none"
    THEN [acc EXCEPT !.fs = m.fs, !.raised = m.err]
    ELSE [acc EXCEPT !.fs = m.fs, !.values = [acc.values EXCEPT ![f] = <<v>>]]

\* the outcome r of a field's type validator and constraint recorded in acc,
\* followed by the field's own validator when r is a value
FieldStep(acc, f, r) ==
    IF r.err # "none"
    THEN [acc EXCEPT !.errors = acc.errors \cup {<<f, r.err>>}]
    ELSE IF f # "ml_model_path"
    THEN [acc EXCEPT !.values = [acc.values EXCEPT ![f] = <<r.v>>]]
    ELSE ModelPathStep(acc, f, r.v, validate_model_path(acc.fs, r.v))

\* the validators of one field applied in state acc = [values, errors, fs,
\* raised]
ValidateStep(env, file, acc, f) == FieldStep(acc, f, ValidateField(env, file, f))

RECURSIVE ValidateModel(_, _, _, _)
\* pydantic's validate_model: the fields in declaration order from field i on;
\* validation errors are collected, any other exception ends the loop at once
ValidateModel(env, file, acc, i) ==
    IF i > Len(FieldOrder) \/ acc.raised # "none" THEN acc
    ELSE ValidateModel(env, file, ValidateStep(env, file, acc, FieldOrder[i]), i + 1)

\* what the construction hands back after validation ended in state r
Constructed(r) ==
    IF r.raised # "none"
    THEN [snapshot |-> <<>>, error |-> "OSError", errors |-> {}, fs |-> r.fs]
    ELSE IF r.errors # {}
    THEN [snapshot |-> <<>>, error |-> "ValidationError", errors |-> r.errors,
          fs |-> r.fs]
    ELSE [snapshot |-> << [x \in Fields |-> r.values[x][1]] >>, error |-> "none",
          errors |-> {}, fs |-> r.fs]

\* ACDCIConfig(): the snapshot (<<>> when the construction raises), the kind of
\* exception, the validation errors and the filesystem it leaves
ACDCIConfig(env, file, f) ==
    Constructed(ValidateModel(env, file,
                    [values |-> [x \in Fields |-> <<>>], errors |-> {},
                     fs |-> f, raised |-> "none"], 1))

----------------------------------------------------------------------------
(* validate_configuration(): the start-up check.                           *)

\* the test inverted: true when the variable is unset or empty
CredentialsProvided_Inverted(creds) == ~(Len(creds) > 0 /\ Len(creds[1]) > 0)

\* os.getenv("GOOGLE_APPLICATION_CREDENTIALS") is truthy
CredentialsProvided(creds) == Len(creds) > 0 /\ Len(creds[1]) > 0

\* lines 99-100: the note logged when the credentials are provided
CredentialsNote(creds) == IF CredentialsProvided(creds) THEN <<"INFO">> ELSE <<>>

\* lines 109-110: the warning, and the outcome m of creating the directory
CreateMissing(m) == [log |-> <<"WARNING">>, fs |-> m.fs, exc |-> m.err]

\* lines 105-110: the check of one critical path whose parent is parent_dir
CheckPath(path, parent_dir, f) ==
    IF Len(path) > 0 /\ ~Exists(f, parent_dir)
    THEN CreateMissing(PathMkdir(f, parent_dir))
    ELSE [log |-> <<>>, fs |-> f, exc |-> "none"]

\* the credentials note followed by the path check c
NoteThen(note, c) == [c EXCEPT !.log = note \o c.log]

\* lines 98-110, the body of the try block on snapshot cfg: the log levels
\* emitted in order, the filesystem left, and the exception raised ("none"
\* when the body runs to its end)
CheckBody(cfg, creds, f) ==
    NoteThen(CredentialsNote(creds),
             CheckPath(cfg["ml_model_path"], ParentOfText(cfg["ml_model_path"]), f))

\* a handler that catches FileExistsError only
CaughtByHandler_FileExistsOnly(e) == e = "FileExistsError"

\* `except Exception`: the exception classes the handler catches; every error
\* the filesystem raises is an OSError, which is an Exception
CaughtByHandler(e) ==
    e \in {"FileExistsError", "FileNotFoundError", "NotADirectoryError"}

\* lines 112-117: the end of the function after the try block ended as b
Finish(cfg, b) ==
    IF b.exc = "none"
    THEN [ret |-> TRUE, log |-> b.log \o <<"SUCCESS">>, fs |-> b.fs,
          cfg |-> cfg, raised |-> "none"]
    ELSE IF CaughtByHandler(b.exc)
    THEN [ret |-> FALSE, log |-> b.log \o <<"ERROR">>, fs |-> b.fs,
          cfg |-> cfg, raised |-> "none"]
    ELSE [ret |-> FALSE, log |-> b.log, fs |-> b.fs, cfg |-> cfg,
          raised |-> b.exc]

\* a start-up check that clears the snapshot's log level as it goes
validate_configuration_Rebinding(cfg, creds, f) ==
    Finish([cfg EXCEPT !["log_level"] = <<>>], CheckBody(cfg, creds, f))

\* validate_configuration() on snapshot cfg: the value returned, the log levels
\* emitted, the filesystem and the snapshot it leaves, and the exception that
\* leaves the function ("none" when it returns)
validate_configuration(cfg, creds, f) == Finish(cfg, CheckBody(cfg, creds, f))

----------------------------------------------------------------------------
(* The enumerated inputs.                                                  *)

IntRaws == {IntToText(i) : i \in (0 - MaxInt)..MaxInt} \cup {<<"x">>}

FloatRaws ==
    { <<"-", "0", ".", "1">>, <<"0", ".", "0">>, <<"0", ".", "7", "5">>,
      <<"1", ".", "0">>, <<"1", ".", "0", "1">>, <<"1">> }

LevelRaws ==
    LevelAlternatives \cup
    { <<"i", "n", "f", "o">>, <<"D", "e", "b", "u", "g">>,
      <<"I", "N", "F", "O", "\n">>, <<"T", "R", "A", "C", "E">>,
      <<"I", "N", "F", "O", "X">>, <<"X", "I", "N", "F", "O">>, <<>> }

NestedModelPath ==
    <<"m", "o", "d", "e", "l", "s", "/", "v", "/", "p", "r", "e", "d", "i", "c",
      "t", "o", "r", ".", "j", "o", "b", "l", "i", "b">>

BareModelPath ==
    <<"p", "r", "e", "d", "i", "c", "t", "o", "r", ".", "j", "o", "b", "l", "i", "b">>

PathRaws == {NestedModelPath, BareModelPath, <<>>}

RawsOf(f) ==
    CASE f \in IntFields -> IntRaws
      [] f \in FloatFields -> FloatRaws
      [] f = "log_level" -> LevelRaws
      [] f = "ml_model_path" -> PathRaws
      [] f = "firebase_project_id" -> {<<"s", "t", "a", "g", "i", "n", "g">>}
      [] f = "firestore_collection_prefix" -> {<<>>}

\* one variable of a settings source: the field it sets and its text
Choices(fields) == UNION {{[field |-> f, raw |-> r] : r \in RawsOf(f)} : f \in fields}

\* a source sets nothing, or one of the given variables
AtMostOne(choices) == {{}} \cup {{c} : c \in choices}

\* what the enumerated .env files set: a nested model path, or a lower-case
\* log level
FileChoices ==
    { [field |-> "ml_model_path", raw |-> NestedModelPath],
      [field |-> "log_level", raw |-> <<"d", "e", "b", "u", "g">>] }

\* a settings source holding the choices S
SourceOf(S) ==
    [f \in Fields |->
        IF \E o \in S : o.field = f
        THEN <<(CHOOSE o \in S : o.field = f).raw>>
        ELSE <<>>]

CredentialValues == {<<>>, << <<>> >>, << <<"k", "e", "y", ".", "j", "s", "o", "n">> >>}

----------------------------------------------------------------------------
(* The state machine.                                                      *)

Init ==
    /\ \E S \in AtMostOne(Choices(Fields \ {"ml_model_path"})),
          P \in AtMostOne(Choices({"ml_model_path"})) :
            environ = SourceOf(S \cup P)
    /\ \E Q \in AtMostOne(FileChoices) : dotenv = SourceOf(Q)
    /\ credentials \in CredentialValues
    /\ fs \in FileSystems
    /\ config = <<>>
    /\ loadError = "none"
    /\ errors = {}
    /\ returned = FALSE
    /\ escaped = "none"
    /\ emitted = <<>>
    /\ lastOp = "init"
    /\ fsBefore = fs
    /\ configAtLoad = <<>>

\* the module state once the construction ended as r
Constructing(r) ==
    /\ fs' = r.fs
    /\ config' = IF r.error = "none" THEN r.snapshot ELSE config
    /\ configAtLoad' = IF r.error = "none" THEN r.snapshot ELSE configAtLoad
    /\ loadError' = r.error
    /\ errors' = r.errors

\* line 93, `config = ACDCIConfig()`: the module is imported (or executed
\* again); when the construction raises, the global keeps what it had
Load ==
    /\ Constructing(ACDCIConfig(environ, dotenv, fs))
    /\ lastOp' = "load"
    /\ fsBefore' = fs
    /\ UNCHANGED <<environ, dotenv, credentials, returned, escaped, emitted>>

\* the module state once the call ended as r
Checking(r) ==
    /\ fs' = r.fs
    /\ config' = <<r.cfg>>
    /\ returned' = (r.raised = "none" /\ r.ret)
    /\ escaped' = r.raised
    /\ emitted' = r.log

\* a call of validate_configuration(); the function exists once the module
\* has been imported, that is once `config` is bound
Validate ==
    /\ config # <<>>
    /\ Checking(validate_configuration(config[1], credentials, fs))
    /\ lastOp' = "validate"
    /\ fsBefore' = fs
    /\ UNCHANGED <<environ, dotenv, credentials, loadError, errors, configAtLoad>>

\* the rest of the system changes the filesystem the program reads
External ==
    /\ \E f \in FileSystems : f # fs /\ fs' = f
    /\ lastOp' = "external"
    /\ fsBefore' = fs
    /\ UNCHANGED <<environ, dotenv, credentials, config, loadError, errors,
                   returned, escaped, emitted, configAtLoad>>

Next == Load \/ Validate \/ External

Spec == Init /\ [][Next]_vars

----------------------------------------------------------------------------
(* Vocabulary of the properties.                                           *)

\* the number of events of level lvl in a log
CountLevel(log, lvl) == Cardinality({i \in 1..Len(log) : log[i] = lvl})

\* a proper ancestor of path p is a regular file, so p cannot be created
FileInTheWay(f, p) == \E k \in 1..(Len(p) - 1) : NodeKind(f, SubSeq(p, 1, k)) = "file"

\* the parent directory of the snapshot's model path
SnapshotParent == ParentOfText(config[1]["ml_model_path"])

\* the latest operation was a validate_configuration() call that met a
\* filesystem error: the parent directory was missing and could not be made
CheckMetError ==
    /\ lastOp = "validate"
    /\ Len(config[1]["ml_model_path"]) > 0
    /\ ~Exists(fsBefore, SnapshotParent)
    /\ FileInTheWay(fsBefore, SnapshotParent)

----------------------------------------------------------------------------
(* C1: validate_configuration() never raises.  Every call returns a        *)
(* boolean and lets no exception out; a call that meets a filesystem error *)
(* returns false and logs exactly one error-level event, and a call that   *)
(* returns true logs none.                                                 *)
Thm_C1 ==
    lastOp = "validate" =>
        /\ escaped = "none"
        /\ returned \in BOOLEAN
        /\ CheckMetError => ~returned
        /\ CountLevel(emitted, "ERROR") = (IF returned THEN 0 ELSE 1)

Witness_C1 ==
    /\ CheckMetError
    /\ ~returned
    /\ escaped = "none"
    /\ CountLevel(emitted, "ERROR") = 1

(* C2 as claimed: a load returns a snapshot exactly when every declared    *)
(* field satisfies its constraint, and a load that returns none fails with *)
(* a configuration error.                                                  *)
Claim_C2 ==
    lastOp = "load" =>
        /\ (loadError = "none") <=>
               (\A f \in Fields : ValidateField(environ, dotenv, f).err = "none")
        /\ loadError \in {"none", "ValidationError"}

\* the text the settings sources give field f: <<>> or <<text>>
SuppliedText(f) == Supplied(environ, dotenv, f)

\* the latest load rejected field f with a configuration error
Rejected(f) == loadError = "ValidationError" /\ \E e \in errors : e[1] = f

\* the enumerated float texts by their place against the range 0.0 .. 1.0
OutsideRange == { <<"-", "0", ".", "1">>, <<"1", ".", "0", "1">> }

OnBound == { <<"0", ".", "0">>, <<"1", ".", "0">>, <<"1">> }

(* C3 as claimed: for prediction_confidence_threshold and exploration_rate *)
(* a value below 0.0 or above 1.0 makes the load fail with a configuration *)
(* error, and a value equal to 0.0 or 1.0 is not rejected.                 *)
Claim_C3 ==
    lastOp = "load" =>
        \A f \in FloatFields :
            LET s == SuppliedText(f)
            IN  Len(s) > 0 =>
                    /\ s[1] \in OutsideRange => loadError = "ValidationError"
                    /\ s[1] \in OnBound => ~Rejected(f)

(* C4 as claimed: for each integer field constrained to x > 0, a value of  *)
(* 0 or below makes the load fail with a configuration error that names    *)
(* the field and the violated "greater than 0" constraint, and a value of  *)
(* 1 or more is not rejected on that field.                                *)
Claim_C4 ==
    lastOp = "load" =>
        \A f \in IntFields : \A i \in (0 - MaxInt)..MaxInt :
            SuppliedText(f) = <<IntToText(i)>> =>
                /\ i <= 0 => /\ loadError = "ValidationError"
                             /\ <<f, "value_error.number.not_gt">> \in errors
                /\ i >= 1 => ~Rejected(f)

\* the five level names
LevelNames ==
    { <<"D", "E", "B", "U", "G">>, <<"I", "N", "F", "O">>,
      <<"W", "A", "R", "N", "I", "N", "G">>, <<"E", "R", "R", "O", "R">>,
      <<"C", "R", "I", "T", "I", "C", "A", "L">> }

(* C5 as claimed: log_level is accepted exactly when it is one of the five *)
(* names compared without regard to case; every other text fails the load. *)
Claim_C5 ==
    lastOp = "load" =>
        LET s == SuppliedText("log_level")
        IN  Len(s) > 0 =>
                /\ ToUpper(s[1]) \in LevelNames => ~Rejected("log_level")
                /\ ToUpper(s[1]) \notin LevelNames => loadError # "none"

\* the texts log_level accepts: a level name in upper case, or one followed
\* by a single newline
AcceptedLevelTexts == LevelNames \cup {n \o <<"\n">> : n \in LevelNames}

(* C5: log_level is accepted exactly when it is one of the five names in   *)
(* upper case, optionally followed by one newline; the comparison is       *)
(* case-sensitive, and every other text fails the load: a configuration    *)
(* error, when one is raised, rejects log_level exactly for those texts.   *)
Thm_C5 ==
    lastOp = "load" =>
        LET s == SuppliedText("log_level")
        IN  Len(s) > 0 =>
                /\ s[1] \in AcceptedLevelTexts => ~Rejected("log_level")
                /\ s[1] \notin AcceptedLevelTexts => loadError # "none"
                /\ loadError = "ValidationError" =>
                       (Rejected("log_level") <=> s[1] \notin AcceptedLevelTexts)
                /\ loadError = "none" => config[1]["log_level"] = s[1]

Witness_C5 ==
    /\ lastOp = "load"
    /\ SuppliedText("log_level") = << <<"i", "n", "f", "o">> >>
    /\ Rejected("log_level")

(* C6: after a successful load the parent directory of the snapshot's      *)
(* ml_model_path is a directory, whether the path is the default or was    *)
(* supplied; a load that follows a load changes nothing on the filesystem  *)
(* and ends as the first one did.                                          *)
Thm_C6 ==
    [][ /\ (lastOp' = "load" /\ loadError' = "none")
            => IsDir(fs', ParentOfText(config'[1]["ml_model_path"]))
        /\ (lastOp = "load" /\ lastOp' = "load")
            => (fs' = fs /\ loadError' = loadError) ]_vars

Witness_C6 ==
    /\ lastOp = "load"
    /\ loadError = "none"
    /\ config[1]["ml_model_path"] = DefaultModelPath
    /\ ~Exists(fsBefore, SnapshotParent)
    /\ IsDir(fs, SnapshotParent)

(* C8: a snapshot never changes once load has returned it: in every state  *)
(* the global snapshot equals the snapshot as load returned it, whatever   *)
(* validate_configuration() calls came after and whatever they returned.   *)
Thm_C8 == config # <<>> => config = configAtLoad

Witness_C8 ==
    /\ lastOp = "validate"
    /\ ~returned
    /\ config # <<>>
    /\ config = configAtLoad

\* the credentials variable is set to a non-empty text
CredentialsSet == Len(credentials) > 0 /\ Len(credentials[1]) > 0

(* C7 as claimed: when the credentials variable is absent the call logs an *)
(* informational note, and with the other checks passing returns true.     *)
Claim_C7 ==
    (lastOp = "validate" /\ credentials = <<>>) =>
        /\ CountLevel(emitted, "INFO") >= 1
        /\ ~CheckMetError => returned

(* C7: the informational note is logged exactly when the credentials       *)
(* variable is set to a non-empty text; when it is absent no note is       *)
(* logged, and the absence alone does not fail the call: with the          *)
(* directory check passing it returns true.                                *)
Thm_C7 ==
    lastOp = "validate" =>
        /\ CountLevel(emitted, "INFO") = (IF CredentialsSet THEN 1 ELSE 0)
        /\ (credentials = <<>> /\ ~CheckMetError) => returned

Witness_C7 ==
    /\ lastOp = "validate"
    /\ credentials = <<>>
    /\ returned
    /\ emitted = <<"SUCCESS">>

(* C9 as claimed: the call logs a warning exactly when the parent of       *)
(* ml_model_path does not exist at the check, and then creates it; when    *)
(* the call returns true that parent is a directory afterward; a call that *)
(* follows at once logs no warning and leaves the filesystem as it is.     *)
Claim_C9 ==
    (lastOp = "validate" /\ Len(config[1]["ml_model_path"]) > 0) =>
        /\ CountLevel(emitted, "WARNING") =
               (IF Exists(fsBefore, SnapshotParent) THEN 0 ELSE 1)
        /\ Exists(fsBefore, SnapshotParent) => fs = fsBefore
        /\ returned =>
               /\ IsDir(fs, SnapshotParent)
               /\ CheckBody(config[1], credentials, fs).fs = fs
               /\ CountLevel(CheckBody(config[1], credentials, fs).log, "WARNING") = 0

\* the model path the sources supply, and its parent directory
SuppliedParent == ParentOfText(SuppliedText("ml_model_path")[1])

\* the sources supply a model path and give another field a value its
\* constraint rejects
PathSuppliedAndOtherFieldInvalid ==
    /\ Len(SuppliedText("ml_model_path")) > 0
    /\ \E f \in Fields \ {"ml_model_path"} :
           ValidateField(environ, dotenv, f).err # "none"

----------------------------------------------------------------------------
(* Where the claims that the code breaks still hold.                       *)

\* the statements of C2, C3 and C4 hold of every load that does not end
\* with the operating-system error of the ml_model_path validator
LoadClaimsApartFromOSError ==
    (lastOp = "load" /\ loadError # "OSError") =>
        (Claim_C2 /\ Claim_C3 /\ Claim_C4)

\* the statement of C9 holds of every call made while the parent of
\* ml_model_path is not a regular file
CheckClaimApartFromFileParent ==
    (lastOp = "validate" /\ NodeKind(fsBefore, SnapshotParent) # "file") => Claim_C9

====
